---- MODULE Spec2Model ----
(***************************************************************************)
(* LM Studio vision proxy (lmstudio_vision_proxy.py): one inbound          *)
(* POST /v1/chat/completions, from the JSON body to the response.          *)
(*                                                                         *)
(* Python values are records [t, v]: t is the type tag, v the payload.     *)
(* A str is a sequence of tokens (the prefixes and markers the code tests  *)
(* for are tokens of their own: "data:", ";base64,", "http://", " ").      *)
(* The caller's message list, its message dicts and their content lists    *)
(* live on a heap (a sequence of objects, addressed by index) so that      *)
(* in-place mutation and copying are different things.                     *)
(***************************************************************************)
EXTENDS Integers, Sequences, FiniteSets, TLC

VARIABLES pc, heap, body, want_stream, messages, images_in, image_urls,
          messages_mm, upstream_payload, r, chunk, received, forwarded,
          response

vars == <<pc, heap, body, want_stream, messages, images_in, image_urls,
          messages_mm, upstream_payload, r, chunk, received, forwarded,
          response>>

\* ------------------------------------------------------------------ bounds
MaxImages == 3
MaxMsgs == 2
MaxChunks == 3

\* ------------------------------------------------------------ Python values
Absent == [t |-> "absent", v |-> <<>>]
None == [t |-> "none", v |-> <<>>]
Str(s) == [t |-> "str", v |-> s]
Num(n) == [t |-> "int", v |-> <<n>>]
Bool(b) == [t |-> "bool", v |-> <<b>>]
List(xs) == [t |-> "list", v |-> xs]
Dict(data) == [t |-> "dict", v |-> <<data>>]
Ref(a) == [t |-> "ref", v |-> <<a>>]
TextBlock(s) == [t |-> "text", v |-> <<s>>]
ImageBlock(u) == [t |-> "image_url", v |-> <<u>>]
Bytes(s) == [t |-> "bytes", v |-> s]
\* A JSON object of the upstream API, by the keys the proxy reads or writes
Mapping(id, model, choices, error) ==
    [t |-> "map", id |-> id, model |-> model, choices |-> choices,
     error |-> error]
\* {"message": text}
Message(text) == [t |-> "message", v |-> <<text>>]
\* A response body that json() cannot decode
NotJson == [t |-> "notjson", v |-> <<>>]

ListObj(xs) == [t |-> "list", items |-> xs]
MsgObj(role, content, name) ==
    [t |-> "dict", role |-> role, content |-> content, name |-> name]

\* dict.get(key, default): the value under the key, the default when absent
Get(x, default) == IF x = Absent THEN default ELSE x

\* bool(x)
Truthy(h, x) ==
    CASE x.t = "str" -> x.v # <<>>
      [] x.t = "bool" -> x.v[1]
      [] x.t = "int" -> x.v[1] # 0
      [] x.t \in {"list", "bytes"} -> x.v # <<>>
      [] x.t = "ref" -> IF h[x.v[1]].t = "list" THEN h[x.v[1]].items # <<>>
                        ELSE h[x.v[1]] # MsgObj(Absent, Absent, Absent)
      [] OTHER -> FALSE

\* a or b
Or(h, a, b) == IF Truthy(h, a) THEN a ELSE b

\* ---------------------------------------------------------- Image Normalizer
looks_data_url(s) ==
    /\ s.t = "str"
    /\ Len(s.v) >= 1
    /\ s.v[1] = "data:"
    /\ \E i \in 1..Len(s.v) : s.v[i] = ";base64,"

is_http_url(s) ==
    /\ s.t = "str"
    /\ Len(s.v) >= 1
    /\ s.v[1] \in {"http://", "https://"}

DefaultMime == "image/png"

to_data_url_from_base64(raw_b64, mime) ==
    Str(<<"data:", mime, ";base64,">> \o raw_b64.v)

\* One turn of the first loop: what the descriptor x appends to urls
DescriptorUrls(x) ==
    IF x.t = "dict"
    THEN LET data == Get(x.v[1], Str(<<>>))
         IN  IF data.t = "str" /\ data.v # <<>>
             THEN <<IF looks_data_url(data) THEN data
                    ELSE to_data_url_from_base64(data, DefaultMime)>>
             ELSE <<>>
    ELSE IF x.t = "str"
    THEN IF looks_data_url(x) \/ is_http_url(x)
         THEN <<x>>
         ELSE <<to_data_url_from_base64(x, DefaultMime)>>
    ELSE <<>>

RECURSIVE BuildUrls(_, _, _)
BuildUrls(xs, i, urls) ==
    IF i > Len(xs) THEN urls
    ELSE BuildUrls(xs, i + 1, urls \o DescriptorUrls(xs[i]))

\* The second loop, keeping the last of equal urls instead of the first
RECURSIVE UniqKeepLast(_, _, _, _)
UniqKeepLast(urls, i, seen, uniq) ==
    IF i > Len(urls) THEN uniq
    ELSE IF \E j \in (i + 1)..Len(urls) : urls[j] = urls[i]
    THEN UniqKeepLast(urls, i + 1, seen, uniq)
    ELSE UniqKeepLast(urls, i + 1, seen \cup {urls[i]}, Append(uniq, urls[i]))

\* The second loop: seen, uniq
RECURSIVE Uniq(_, _, _, _)
Uniq(urls, i, seen, uniq) ==
    IF i > Len(urls) THEN uniq
    ELSE IF urls[i] \notin seen
    THEN Uniq(urls, i + 1, seen \cup {urls[i]}, Append(uniq, urls[i]))
    ELSE Uniq(urls, i + 1, seen, uniq)

\* for x in <value>: a list yields its items, a str its characters, anything
\* else that is truthy raises TypeError
Iterable(x) == x.t \in {"list", "str"}

RECURSIVE Chars(_, _)
Chars(s, i) == IF i > Len(s) THEN <<>> ELSE <<Str(<<s[i]>>)>> \o Chars(s, i + 1)

Items(x) == IF x.t = "list" THEN x.v ELSE Chars(x.v, 1)

prepare_image_urls(h, imgs) ==
    LET it == Or(h, imgs, List(<<>>))
    IN  IF ~Iterable(it)
        THEN [raised |-> TRUE, ret |-> <<>>]
        ELSE [raised |-> FALSE,
              ret |-> Uniq(BuildUrls(Items(it), 1, <<>>), 1, {}, <<>>)]

\* ---------------------------------------------------------- Message Composer
IsDict(h, x) == x.t = "ref" /\ h[x.v[1]].t = "dict"
IsList(h, x) == x.t = "ref" /\ h[x.v[1]].t = "list"

\* len(messages) and messages[i]: a list has them, a str has them (its
\* characters), another truthy value raises TypeError
Sized(h, x) == IsList(h, x) \/ x.t = "str"
Elems(h, x) == IF x.t = "str" THEN Chars(x.v, 1) ELSE h[x.v[1]].items

\* The scan for the last user message, from index i down: idx is 0 for None.
\* messages[i].get raises AttributeError when messages[i] is no dict.
RECURSIVE LastUser(_, _, _)
LastUser(h, items, i) ==
    IF i < 1 THEN [raised |-> FALSE, idx |-> 0]
    ELSE IF ~IsDict(h, items[i]) THEN [raised |-> TRUE, idx |-> 0]
    ELSE IF Get(h[items[i].v[1]].role, None) = Str(<<"user">>)
    THEN [raised |-> FALSE, idx |-> i]
    ELSE LastUser(h, items, i - 1)

\* [{"type": "image_url", "image_url": {"url": url}} for url in image_urls]
ImgBlocks(urls) == [i \in 1..Len(urls) |-> ImageBlock(urls[i])]

\* str.strip(): leading and trailing whitespace removed
RECURSIVE LStrip(_)
LStrip(s) == IF s # <<>> /\ Head(s) = " " THEN LStrip(Tail(s)) ELSE s
RECURSIVE RStrip(_)
RStrip(s) ==
    IF s # <<>> /\ s[Len(s)] = " " THEN RStrip(SubSeq(s, 1, Len(s) - 1)) ELSE s
Strip(s) == RStrip(LStrip(s))

\* The str branch with the text block after the image blocks
StrBlocksTextLast(content, img_blocks) ==
    img_blocks \o (IF Strip(content.v) # <<>> THEN <<TextBlock(content)>>
                   ELSE <<>>)

\* The str branch: content_blocks
StrBlocks(content, img_blocks) ==
    (IF Strip(content.v) # <<>> THEN <<TextBlock(content)>> ELSE <<>>)
        \o img_blocks

\* The list branch done in place: content.extend(img_blocks)
ExtendInPlace(h, content, img_blocks) ==
    [heap |-> [h EXCEPT ![content.v[1]].items = @ \o img_blocks],
     ref |-> content]

\* The list branch: content + img_blocks is a new list
Concat(h, content, img_blocks) ==
    [heap |-> Append(h, ListObj(h[content.v[1]].items \o img_blocks)),
     ref |-> Ref(Len(h) + 1)]

ensure_multimodal_message(h, msgs, urls) ==
    IF urls = <<>> THEN [raised |-> FALSE, heap |-> h, ret |-> msgs]
    ELSE IF ~Sized(h, msgs) THEN [raised |-> TRUE, heap |-> h, ret |-> None]
    ELSE
    LET items == Elems(h, msgs)
        scan == LastUser(h, items, Len(items))
        img_blocks == ImgBlocks(urls)
        h1 == Append(h, ListObj(img_blocks))
        imgRef == Ref(Len(h1))
    IN  IF scan.raised THEN [raised |-> TRUE, heap |-> h, ret |-> None]
        ELSE IF scan.idx = 0
        THEN LET h2 == Append(h1, MsgObj(Str(<<"user">>), imgRef, Absent))
                 h3 == Append(h2, ListObj(Append(items, Ref(Len(h2)))))
             IN  [raised |-> FALSE, heap |-> h3, ret |-> Ref(Len(h3))]
        ELSE
        LET user_msg == h1[items[scan.idx].v[1]]
            content == Get(user_msg.content, Str(<<>>))
            new == IF content.t = "str"
                   THEN [heap |-> Append(h1, ListObj(StrBlocks(content,
                                                              img_blocks))),
                         ref |-> Ref(Len(h1) + 1)]
                   ELSE IF IsList(h1, content)
                   THEN Concat(h1, content, img_blocks)
                   ELSE [heap |-> h1, ref |-> imgRef]
            h2 == Append(new.heap, [user_msg EXCEPT !.content = new.ref])
            h3 == Append(h2, ListObj([items EXCEPT ![scan.idx] = Ref(Len(h2))]))
        IN  [raised |-> FALSE, heap |-> h3, ret |-> Ref(Len(h3))]

\* ------------------------------------------------------------------- inputs
Raw == Str(<<"QUJD">>)
DataUrl == Str(<<"data:", "image/png", ";base64,", "QUJD">>)
HttpUrl == Str(<<"http://", "h">>)
NoMarker == Str(<<"data:", "QUJD">>)
Empty == Str(<<>>)

Descriptors ==
    {Raw, DataUrl, HttpUrl, NoMarker, Empty,
     Dict(Absent), Dict(Raw), Dict(DataUrl), Dict(HttpUrl), Dict(Empty),
     Dict(Num(7)), Num(7), None}

SeqsUpTo(S, n) == UNION {[1..k -> S] : k \in 0..n}

Body(stream, msgs, images, allImages, model) ==
    [stream |-> stream, messages |-> msgs, images |-> images,
     allImages |-> allImages, model |-> model]

NoResponse == [kind |-> "none", status |-> 0, content |-> None,
               media_type |-> None]
NoUpstream == [kind |-> "none", status |-> 0, json |-> None,
               ctype |-> Absent]

\* What is not the request itself, before the handler has run
Fresh ==
    /\ pc = "start"
    /\ want_stream = FALSE
    /\ messages = None
    /\ images_in = None
    /\ image_urls = <<>>
    /\ messages_mm = None
    /\ upstream_payload = None
    /\ r = NoUpstream
    /\ chunk = None
    /\ received = <<>>
    /\ forwarded = <<>>
    /\ response = NoResponse

\* --------------------------------------------------------------- the handler
\* chat_completions, lines 126-130
Normalize ==
    /\ pc = "start"
    /\ want_stream' = Truthy(heap, Get(body.stream, Bool(FALSE)))
    /\ LET m == Get(body.messages, None)
       IN  IF Truthy(heap, m)
           THEN /\ messages' = m
                /\ heap' = heap
           ELSE /\ messages' = Ref(Len(heap) + 1)
                /\ heap' = Append(heap, ListObj(<<>>))
    /\ images_in' = Or(heap, Or(heap, Get(body.images, None),
                                Get(body.allImages, None)), List(<<>>))
    /\ LET res == prepare_image_urls(heap, images_in')
       IN  /\ image_urls' = res.ret
           /\ pc' = IF res.raised THEN "crashed" ELSE "normalized"
    /\ UNCHANGED <<body, messages_mm, upstream_payload, r, chunk, received,
                   forwarded, response>>

\* chat_completions, lines 131-134
Compose ==
    /\ pc = "normalized"
    /\ LET res == ensure_multimodal_message(heap, messages, image_urls)
       IN  /\ heap' = res.heap
           /\ messages_mm' = res.ret
           /\ upstream_payload' =
                  IF res.raised THEN None
                  ELSE [body EXCEPT !.messages = res.ret]
           /\ pc' = IF res.raised THEN "crashed" ELSE "composed"
    /\ UNCHANGED <<body, want_stream, messages, images_in, image_urls, r,
                   chunk, received, forwarded, response>>

\* ------------------------------------------------------------ Upstream Relay
GatewayStatus == 502
OkStatus == 200

\* Response.raise_for_status(): HTTPError for a 4xx or 5xx status
RaisesForStatus(status) == 400 <= status /\ status < 600

\* JSONResponse(status_code=..., content=...)
JSONResponse(status, content) ==
    [kind |-> "json", status |-> status, content |-> content,
     media_type |-> Str(<<"application/json">>)]

\* {"error": {"message": str(e)}}
ErrorContent(text) == Mapping(Absent, Absent, Absent, Message(text))

\* except Exception without status_code=502: JSONResponse's default status
GatewayErrorDefaultStatus(text) == JSONResponse(OkStatus, ErrorContent(text))

\* except Exception, lines 166-167
GatewayError(text) == JSONResponse(GatewayStatus, ErrorContent(text))

\* except requests.HTTPError with the fixed 502 for every upstream status
HttpErrorFixedStatus(status, j) ==
    JSONResponse(GatewayStatus,
                 IF j = NotJson THEN ErrorContent("HTTPError") ELSE j)

\* except requests.HTTPError, lines 159-165 (e.response is the response
\* raise_for_status was called on, never None)
HttpError(status, j) ==
    JSONResponse(status, IF j = NotJson THEN ErrorContent("HTTPError") ELSE j)

\* j[key] = value whatever j holds
Overwrite(old, value) == value

\* j.setdefault(key, value): the value j has under the key afterwards
SetDefault(old, value) == IF old = Absent THEN value ELSE old

UuidHex == {"0a1b", "9f8e"}

\* Lines 153-158: the body returned for the decoded body j
Augment(j, u) ==
    IF j.t = "map"
    THEN [j EXCEPT !.id = SetDefault(@, Str(<<"chatcmpl-", u>>)),
                   !.model = SetDefault(@, Or(heap, Get(body.model, None),
                                              Str(<<"local">>)))]
    ELSE j

StatusCodes == {200, 201, 304, 404, 429, 500}
ContentTypes == {Absent, Str(<<"application/x-ndjson">>)}
Ids == {Absent, None, Str(<<"chatcmpl-", "up">>)}
Models == {Absent, Str(<<"gemma">>)}
Errors == {Absent, Message("rate limited")}
JsonBodies ==
    {Mapping(i, m, Str(<<"choices">>), e) : i \in Ids, m \in Models,
                                            e \in Errors}
        \cup {List(<<>>)}
Bodies == JsonBodies \cup {NotJson}

Upstream(status, ctype, j) ==
    [kind |-> "http", status |-> status, json |-> j, ctype |-> ctype]
\* No response: connection refused, timeout
TransportError == [kind |-> "neterr", status |-> 0, json |-> None,
                   ctype |-> Absent]

\* s.post(...) raised: lines 141/151, then 166-167
PostFails ==
    /\ pc = "composed"
    /\ r' = TransportError
    /\ response' = GatewayError("ConnectionError")
    /\ pc' = "done"
    /\ UNCHANGED <<heap, body, want_stream, messages, images_in, image_urls,
                   messages_mm, upstream_payload, chunk, received, forwarded>>

\* s.post(...) answered with a 4xx/5xx status: lines 142/152, then 159-165
PostHttpError ==
    /\ pc = "composed"
    /\ \E status \in StatusCodes, ctype \in ContentTypes, j \in Bodies :
           /\ RaisesForStatus(status)
           /\ r' = Upstream(status, ctype, j)
           /\ response' = HttpError(status, j)
    /\ pc' = "done"
    /\ UNCHANGED <<heap, body, want_stream, messages, images_in, image_urls,
                   messages_mm, upstream_payload, chunk, received, forwarded>>

\* Buffered mode, no HTTPError: lines 151-158, and 166-167 when json() fails
PostBuffered ==
    /\ pc = "composed"
    /\ ~want_stream
    /\ \E status \in StatusCodes, ctype \in ContentTypes, j \in Bodies,
          u \in UuidHex :
           /\ ~RaisesForStatus(status)
           /\ r' = Upstream(status, ctype, j)
           /\ response' = IF j = NotJson
                          THEN GatewayError("JSONDecodeError")
                          ELSE JSONResponse(OkStatus, Augment(j, u))
    /\ pc' = "done"
    /\ UNCHANGED <<heap, body, want_stream, messages, images_in, image_urls,
                   messages_mm, upstream_payload, chunk, received, forwarded>>

\* Streamed mode, no HTTPError: lines 141-149. The body is not read here.
PostStreamed ==
    /\ pc = "composed"
    /\ want_stream
    /\ \E status \in StatusCodes, ctype \in ContentTypes :
           /\ ~RaisesForStatus(status)
           /\ r' = Upstream(status, ctype, None)
           /\ response' =
                  [kind |-> "stream", status |-> OkStatus, content |-> None,
                   media_type |->
                       Or(heap, Get(ctype, Str(<<"text/event-stream">>)),
                          Str(<<"text/event-stream">>))]
    /\ pc' = "streaming"
    /\ UNCHANGED <<heap, body, want_stream, messages, images_in, image_urls,
                   messages_mm, upstream_payload, chunk, received, forwarded>>

Chunks == {Bytes(<<"a">>), Bytes(<<"b">>), Bytes(<<>>)}

\* gen(): r.iter_content hands over the next chunk
IterNext ==
    /\ pc = "streaming"
    /\ Len(received) < MaxChunks
    /\ \E c \in Chunks :
           /\ chunk' = c
           /\ received' = Append(received, c)
    /\ pc' = "got_chunk"
    /\ UNCHANGED <<heap, body, want_stream, messages, images_in, image_urls,
                   messages_mm, upstream_payload, r, forwarded, response>>

\* yield chunk, whatever the chunk
YieldedAlways(fwd, c) == Append(fwd, c)

\* if chunk: yield chunk
Yielded(fwd, c) == IF Truthy(heap, c) THEN Append(fwd, c) ELSE fwd

\* gen(): lines 146-147
YieldChunk ==
    /\ pc = "got_chunk"
    /\ forwarded' = Yielded(forwarded, chunk)
    /\ pc' = "streaming"
    /\ UNCHANGED <<heap, body, want_stream, messages, images_in, image_urls,
                   messages_mm, upstream_payload, r, chunk, received,
                   response>>

\* gen(): r.iter_content is exhausted, the generator returns
StreamEnd ==
    /\ pc = "streaming"
    /\ pc' = "complete"
    /\ UNCHANGED <<heap, body, want_stream, messages, images_in, image_urls,
                   messages_mm, upstream_payload, r, chunk, received,
                   forwarded, response>>

\* gen(): r.iter_content raises mid-stream, nothing in gen catches it
StreamFail ==
    /\ pc = "streaming"
    /\ pc' = "aborted"
    /\ UNCHANGED <<heap, body, want_stream, messages, images_in, image_urls,
                   messages_mm, upstream_payload, r, chunk, received,
                   forwarded, response>>

\* ------------------------------------------------------------- request bodies
Msg(role, content, name) ==
    [t |-> "msg", role |-> role, content |-> content, name |-> name]

\* The heap after the JSON body is parsed: one list of the messages, one dict
\* per message, one list per block-list content
RECURSIVE LoadMsgs(_, _, _, _)
LoadMsgs(descs, i, h, refs) ==
    IF i > Len(descs)
    THEN [heap |-> Append(h, ListObj(refs)), ref |-> Ref(Len(h) + 1)]
    ELSE LET d == descs[i]
         IN  IF d.t # "msg" THEN LoadMsgs(descs, i + 1, h, Append(refs, d))
             ELSE IF d.content.t = "list"
             THEN LET h1 == Append(h, ListObj(d.content.v))
                      h2 == Append(h1, MsgObj(d.role, Ref(Len(h1)), d.name))
                  IN  LoadMsgs(descs, i + 1, h2, Append(refs, Ref(Len(h2))))
             ELSE LET h1 == Append(h, MsgObj(d.role, d.content, d.name))
                  IN  LoadMsgs(descs, i + 1, h1, Append(refs, Ref(Len(h1))))

User == Str(<<"user">>)
System == Str(<<"system">>)
Describe == Str(<<"describe">>)
Blank == Str(<<" ">>)
Blocks == List(<<TextBlock(Str(<<"hi">>))>>)

MsgDescs ==
    {Msg(role, content, name) :
        role \in {User, System},
        content \in {Describe, Blank, Blocks, Num(7), Absent},
        name \in {Absent, Str(<<"n">>)}}

\* Message values of an inbound body: well-formed lists, a list holding a
\* non-object, a non-list
HandlerMessages ==
    {<<>>, <<Msg(System, Str(<<"sys">>), Absent)>>,
     <<Msg(User, Describe, Absent)>>, <<Num(7)>>}
HandlerImages ==
    {Absent, List(<<Raw>>), List(<<Raw, Dict(DataUrl)>>), Num(5)}

Init ==
    /\ Fresh
    /\ \E stream \in {Absent, Bool(TRUE), Bool(FALSE)},
          images \in HandlerImages,
          allImages \in {Absent, List(<<HttpUrl>>)},
          model \in {Absent, None, Str(<<"m">>)} :
           \/ \E descs \in HandlerMessages :
                  LET ld == LoadMsgs(descs, 1, <<>>, <<>>)
                  IN  /\ heap = ld.heap
                      /\ body = Body(stream, ld.ref, images, allImages, model)
           \/ \E m \in {Absent, Num(5)} :
                  /\ heap = <<>>
                  /\ body = Body(stream, m, images, allImages, model)

Next ==
    \/ Normalize
    \/ Compose
    \/ PostFails
    \/ PostHttpError
    \/ PostBuffered
    \/ PostStreamed
    \/ IterNext
    \/ YieldChunk
    \/ StreamEnd
    \/ StreamFail

Spec == Init /\ [][Next]_vars

InitCompose ==
    /\ Fresh
    /\ \E descs \in SeqsUpTo(MsgDescs, MaxMsgs),
          images \in {Absent, List(<<Raw>>), List(<<HttpUrl, Raw, DataUrl>>)} :
           LET ld == LoadMsgs(descs, 1, <<>>, <<>>)
           IN  /\ heap = ld.heap
               /\ body = Body(Absent, ld.ref, images, Absent, Absent)

SpecCompose == InitCompose /\ [][Normalize \/ Compose]_vars

InitNormalize ==
    /\ Fresh
    /\ heap = <<>>
    /\ \E imgs \in SeqsUpTo(Descriptors, MaxImages) :
           body = Body(Absent, Absent, List(imgs), Absent, Absent)

SpecNormalize == InitNormalize /\ [][Normalize]_vars

\* ------------------------------------------------------------------- claims
Success(status) == 200 <= status /\ status <= 299
ClientOrServerError(status) == 400 <= status /\ status <= 599
Answered == pc \in {"done", "streaming", "got_chunk", "complete", "aborted"}
IsPrefix(a, b) == Len(a) <= Len(b) /\ a = SubSeq(b, 1, Len(a))
\* {"error": {"message": <text>}} and nothing else
Synthesized(content) ==
    /\ content.t = "map"
    /\ content.error.t = "message"
    /\ content.id = Absent /\ content.model = Absent
    /\ content.choices = Absent

\* C1: the handler never terminates by an uncaught exception: whatever the
\* body, no failure of image normalization, message composition or the
\* upstream call leaves chat_completions without a response it built.
C1_NeverUncaught == pc # "crashed"

\* C2 as stated: in both modes, an upstream status S that is not a success
\* status reaches the caller as status S, with the upstream's body if it is
\* JSON and a synthesized error body otherwise, and no chunk is forwarded.
C2_NonSuccessPropagated ==
    (Answered /\ r.kind = "http" /\ ~Success(r.status))
        => /\ response.kind = "json"
           /\ response.status = r.status
           /\ forwarded = <<>>

\* C2 amended: in both modes, an upstream 4xx or 5xx status S reaches the
\* caller as a JSON response of status S, whose body is the upstream's body
\* when that is JSON and {error: {message}} otherwise; the stream is never
\* started, so no chunk is read or forwarded.
C2_ErrorStatusPropagated ==
    (r.kind = "http" /\ ClientOrServerError(r.status))
        => /\ pc = "done"
           /\ response.kind = "json"
           /\ response.status = r.status
           /\ r.json # NotJson => response.content = r.json
           /\ r.json = NotJson => Synthesized(response.content)
           /\ received = <<>> /\ forwarded = <<>>

C2_Witness ==
    /\ pc = "done" /\ want_stream
    /\ r.kind = "http" /\ r.status = 429
    /\ r.json = Mapping(Absent, Absent, Str(<<"choices">>),
                        Message("rate limited"))
    /\ response.status = 429 /\ response.content = r.json

\* C3: when no HTTP status is received, or (buffered mode) a success
\* response's body is not JSON, the caller gets status 502 with a body
\* {error: {message}}, never a success response.
C3_GatewayFailure ==
    (\/ r.kind = "neterr"
     \/ r.kind = "http" /\ ~want_stream /\ Success(r.status)
            /\ r.json = NotJson)
        => /\ pc = "done"
           /\ response.kind = "json"
           /\ response.status = 502
           /\ ~Success(response.status)
           /\ Synthesized(response.content)

C3_Witness ==
    /\ pc = "done" /\ ~want_stream
    /\ r.kind = "http" /\ r.status = 200 /\ r.json = NotJson
    /\ response.status = 502

\* C4: in buffered mode a success status of the upstream, 200 or another,
\* is the status of the response that carries the decoded body.
C4_BufferedStatusRelayed ==
    (pc = "done" /\ ~want_stream /\ r.kind = "http" /\ Success(r.status)
        /\ r.json # NotJson)
        => response.status = r.status

NonEmpty(chunks) == SelectSeq(chunks, LAMBDA c : c.v # <<>>)

InputDescriptors == body.images.v
UrlOf(k) == DescriptorUrls(InputDescriptors[k])
FirstPos(u) ==
    CHOOSE k \in 1..Len(InputDescriptors) :
        /\ UrlOf(k) = <<u>>
        /\ \A m \in 1..(k - 1) : UrlOf(m) # <<u>>

\* C7: the list prepare_image_urls returns has no repeated entry, holds
\* exactly the URLs the descriptors yield, and orders them by the position
\* of each URL's first occurrence in the input.
C7_UniqueFirstOccurrence ==
    pc = "normalized" =>
        /\ \A i, j \in 1..Len(image_urls) :
               i # j => image_urls[i] # image_urls[j]
        /\ {image_urls[i] : i \in 1..Len(image_urls)}
               = {UrlOf(k)[1] : k \in {m \in 1..Len(InputDescriptors) :
                                           UrlOf(m) # <<>>}}
        /\ \A i, j \in 1..Len(image_urls) :
               i < j => FirstPos(image_urls[i]) < FirstPos(image_urls[j])

C7_Witness ==
    /\ pc = "normalized"
    /\ InputDescriptors = <<HttpUrl, Raw, DataUrl>>
    /\ image_urls = <<HttpUrl, DataUrl>>

\* The last user-role message of a message list: its index, 0 for none
IsUser(h, item) == h[item.v[1]].role = User
LastUserIdx(h, items) ==
    IF \E i \in 1..Len(items) : IsUser(h, items[i])
    THEN CHOOSE i \in 1..Len(items) :
             /\ IsUser(h, items[i])
             /\ \A k \in (i + 1)..Len(items) : ~IsUser(h, items[k])
    ELSE 0

\* C8: ensure_multimodal_message changes no object of the caller (the
\* message list, the message records, the content block lists), and in the
\* list it returns every message but the last user-role one is the input's,
\* as is every field but content of that one; without a user-role message
\* the input's messages are followed by one more.
C8_ComposeFrame ==
    [][pc = "normalized" =>
        /\ Len(heap') >= Len(heap)
        /\ \A a \in 1..Len(heap) : heap'[a] = heap[a]
        /\ LET in == heap[messages.v[1]].items
               out == heap'[messages_mm'.v[1]].items
               idx == LastUserIdx(heap, in)
           IN  /\ image_urls = <<>> => messages_mm' = messages
               /\ idx = 0 /\ image_urls # <<>>
                      => /\ Len(out) = Len(in) + 1
                         /\ SubSeq(out, 1, Len(in)) = in
               /\ idx # 0
                      => /\ Len(out) = Len(in)
                         /\ \A i \in 1..Len(in) : i # idx => out[i] = in[i]
                         /\ heap'[out[idx].v[1]].role = heap[in[idx].v[1]].role
                         /\ heap'[out[idx].v[1]].name = heap[in[idx].v[1]].name
    ]_vars

C8_Witness ==
    /\ pc = "composed"
    /\ image_urls # <<>>
    /\ LET in == heap[messages.v[1]].items
           idx == LastUserIdx(heap, in)
       IN  /\ Len(in) = 2 /\ idx = 1
           /\ IsList(heap, heap[in[idx].v[1]].content)
           /\ heap[in[idx].v[1]].name # Absent
           /\ messages_mm # messages

\* The blocks an input content stands for: one text block for a non-blank
\* string, the blocks of a block list, nothing otherwise
OriginalBlocks(h, content) ==
    IF content.t = "str"
    THEN IF \E i \in 1..Len(content.v) : content.v[i] # " "
         THEN <<TextBlock(content)>> ELSE <<>>
    ELSE IF IsList(h, content) THEN h[content.v[1]].items
    ELSE <<>>

\* C9: after ensure_multimodal_message with a non-empty URL list the result
\* has a last user-role message (the input's, or a new trailing one) whose
\* content is a block list: the original content's blocks, then one
\* image_url block per URL in order.
C9_ImagesInLastUserMessage ==
    (pc = "composed" /\ image_urls # <<>>) =>
        LET in == heap[messages.v[1]].items
            out == heap[messages_mm.v[1]].items
            idx == LastUserIdx(heap, in)
            at == IF idx = 0 THEN Len(in) + 1 ELSE idx
            images == [i \in 1..Len(image_urls) |-> ImageBlock(image_urls[i])]
        IN  /\ Len(out) >= at
            /\ LastUserIdx(heap, out) = at
            /\ idx = 0 => at = Len(out)
            /\ LET content == heap[out[at].v[1]].content
               IN  /\ IsList(heap, content)
                   /\ heap[content.v[1]].items =
                          (IF idx = 0 THEN <<>>
                           ELSE OriginalBlocks(heap,
                                    Get(heap[in[idx].v[1]].content,
                                        Str(<<>>))))
                              \o images

C9_Witness ==
    /\ pc = "composed"
    /\ Len(image_urls) = 2
    /\ LET in == heap[messages.v[1]].items
           out == heap[messages_mm.v[1]].items
       IN  /\ Len(in) = 1
           /\ heap[in[1].v[1]].role = User
           /\ heap[in[1].v[1]].content = Describe
           /\ heap[heap[out[1].v[1]].content.v[1]].items =
                  <<TextBlock(Describe), ImageBlock(image_urls[1]),
                    ImageBlock(image_urls[2])>>

\* C10: in buffered mode, a success response whose body is a mapping comes
\* back with an id beginning with chatcmpl- if it had none, with the
\* caller's model name (else the default) as model if it had none, and with
\* every field it had unchanged.
C10_FieldFill ==
    (pc = "done" /\ ~want_stream /\ r.kind = "http" /\ Success(r.status)
        /\ r.json.t = "map")
        => /\ response.kind = "json"
           /\ response.content.t = "map"
           /\ IF r.json.id = Absent
              THEN /\ response.content.id.t = "str"
                   /\ Len(response.content.id.v) = 2
                   /\ response.content.id.v[1] = "chatcmpl-"
              ELSE response.content.id = r.json.id
           /\ response.content.model =
                  IF r.json.model # Absent THEN r.json.model
                  ELSE IF body.model.t = "str" /\ body.model.v # <<>>
                  THEN body.model
                  ELSE Str(<<"local">>)
           /\ response.content.choices = r.json.choices
           /\ response.content.error = r.json.error

C10_Witness ==
    /\ pc = "done" /\ ~want_stream /\ r.kind = "http" /\ r.status = 200
    /\ r.json.t = "map"
    /\ r.json.id = Absent /\ r.json.model = Str(<<"gemma">>)
    /\ body.model = Str(<<"m">>)
    /\ response.content.id.v[1] = "chatcmpl-"
    /\ response.content.model = Str(<<"gemma">>)
====
